---- MODULE Spec2Model ----
(***************************************************************************)
(* Model of layers.py: LinearNet, Attention, MAB, PMA, ISAB and IPAB.      *)
(*                                                                         *)
(* A tensor is modelled by its shape, a sequence of positive integers.     *)
(* A forward pass is modelled by what it does to the shape, by the         *)
(* exception it raises (if any), and by the ordered list of the calls it   *)
(* makes (its trace).  A probability or slope is an integer number of      *)
(* hundredths (0.2 is 20).  An optional value is <<>> for Python's None    *)
(* and <<v>> for the value v.                                              *)
(***************************************************************************)
EXTENDS Integers, Sequences, FiniteSets, TLC

VARIABLES
    self,    \* the module object the driver holds ([cls |-> "None"] when none)
    ctor,    \* the arguments of the constructor call that made (or failed to make) self
    op,      \* the operation whose outcome the driver holds: "none", "__init__" or "forward"
    args,    \* the argument shapes of the last forward call
    raised,  \* the exception the last operation raised, "None" when it returned
    ret,     \* the shapes the last forward call returned (<<>> when it raised)
    trace,   \* the calls the last forward made, in order
    chain    \* how many times in a row the last forward call's Z has been fed back in

vars == <<self, ctor, op, args, raised, ret, trace, chain>>

----------------------------------------------------------------------------
(* Bounds of the model *)

MaxDim == 2      \* batch sizes and set sizes are 1..MaxDim
MaxEmbed == 2    \* embedding dimensions and layer widths are 1..MaxEmbed (and SmokeEmbed)
MaxHeads == 3    \* head counts are 1..MaxHeads
MaxHidden == 1   \* ff_layers holds at most MaxHidden hidden widths
MaxChain == 2    \* successive IPAB calls that feed the returned Z back in

(* Program constants *)

SmokeEmbed == 10          \* IPAB(10, num_heads=2, ...) of the smoke test
LeakyReluAlpha == 20      \* leaky_relu_alpha = 0.2
NetDropoutP == 0          \* LinearNet dropout_p = 0
MABDropoutP == 10         \* MAB dropout = 0.1

None == <<>>
Some(v) == <<v>>

Dims == 1..MaxDim
EmbedDims == (1..MaxEmbed) \cup {SmokeEmbed}
HeadCounts == 1..MaxHeads
DropoutPs == {NetDropoutP, MABDropoutP}
ActivationFunctions == {"torch.softmax", "softmax_last_axis"}

BoundedSeq(S, n) == UNION {[1..k -> S] : k \in 0..n}

----------------------------------------------------------------------------
(* Tensor shapes *)

Last(s) == s[Len(s)]
Front(s) == SubSeq(s, 1, Len(s) - 1)

\* the outcome of a computation: the exception, the resulting shape, the calls made
Ok(shape, tr) == [raised |-> "None", shape |-> shape, trace |-> tr]
Raise(e, tr) == [raised |-> e, shape |-> <<>>, trace |-> tr]
Step(o, fn, i, shape) == [op |-> o, fn |-> fn, i |-> i, shape |-> shape]

\* shape s left-padded with ones to rank n
Pad(s, n) == [i \in 1..n |-> IF i <= n - Len(s) THEN 1 ELSE s[i - (n - Len(s))]]
Max(a, b) == IF a >= b THEN a ELSE b

\* torch broadcasting of two shapes: <<>> wrapped as None when incompatible
Broadcast(a, b) ==
    LET n == Max(Len(a), Len(b))
        pa == Pad(a, n)
        pb == Pad(b, n)
    IN  IF \A i \in 1..n : pa[i] = pb[i] \/ pa[i] = 1 \/ pb[i] = 1
        THEN Some([i \in 1..n |-> IF pa[i] = 1 THEN pb[i] ELSE pa[i]])
        ELSE None

\* x.transpose(-2, -1), for a tensor of rank at least 2
Transpose(s) ==
    LET n == Len(s) IN [i \in 1..n |-> IF i = n - 1 THEN s[n] ELSE IF i = n THEN s[n - 1] ELSE s[i]]

\* torch.matmul of two tensors of rank at least 2: None when the shapes do not fit
Matmul(a, b) ==
    LET batch == Broadcast(SubSeq(a, 1, Len(a) - 2), SubSeq(b, 1, Len(b) - 2))
    IN  IF Last(a) # b[Len(b) - 1] \/ batch = None
        THEN None
        ELSE Some(batch[1] \o <<a[Len(a) - 1], Last(b)>>)

----------------------------------------------------------------------------
(* LinearNet *)

LinearNet_init(layer_sizes, leaky_relu_alpha, dropout_p, final_linear) ==
    [cls |-> "LinearNet",
     final_linear |-> final_linear,
     leaky_relu_alpha |-> leaky_relu_alpha,
     dropout |-> dropout_p,
     net |-> [i \in 1..(Len(layer_sizes) - 1) |-> <<layer_sizes[i], layer_sizes[i + 1]>>]]

\* nn.Linear(in, out) applied to a tensor of shape x
Linear(layer, x) == IF Len(x) >= 1 /\ Last(x) = layer[1] THEN Some(Front(x) \o <<layer[2]>>) ELSE None

\* a slip: "and" for "or" in the condition
ApplyLeakyRelu_and(net, i) == i # Len(net.net) /\ ~net.final_linear

\* the condition under which iteration i applies the nonlinearity
ApplyLeakyRelu(net, i) == i # Len(net.net) \/ ~net.final_linear

\* one iteration of the loop of forward, on a tensor of shape x: the calls it makes
LinearNet_body(net, i, y) ==
    <<Step("linear", "self.net", i, y)>>
    \o (IF ApplyLeakyRelu(net, i) THEN <<Step("leaky_relu", "F.leaky_relu", i, y)>> ELSE <<>>)
    \o <<Step("dropout", "self.dropout", i, y)>>

RECURSIVE LinearNet_loop(_, _, _)
LinearNet_loop(net, i, r) ==
    IF i > Len(net.net) \/ r.raised # "None" THEN r
    ELSE LET y == Linear(net.net[i], r.shape)
         IN  IF y = None
             THEN Raise("RuntimeError", r.trace)
             ELSE LinearNet_loop(net, i + 1, Ok(y[1], r.trace \o LinearNet_body(net, i, y[1])))

LinearNet_forward(net, x) == LinearNet_loop(net, 1, Ok(x, <<>>))

----------------------------------------------------------------------------
(* Attention *)

Attention_init(activation_function) ==
    [cls |-> "Attention", activation_function |-> activation_function]

\* self.activation_function(logits): torch.softmax needs its dim argument
CallActivation(f, logits) == IF f = "torch.softmax" THEN None ELSE Some(logits)

Attention_forward(att, Q, K, V) ==
    LET qk == Matmul(Q, Transpose(K))
        t1 == <<Step("matmul", "torch.matmul", 0, qk[1])>>
        t2 == t1 \o <<Step("scale", "div_sqrt_d", 0, qk[1])>>
        act == CallActivation(att.activation_function, qk[1])
        t3 == t2 \o <<Step("activation_function", att.activation_function, 0, act[1])>>
        o == Matmul(act[1], V)
    IN  IF qk = None THEN Raise("RuntimeError", <<>>)
        ELSE IF act = None THEN Raise("TypeError", t2)
        ELSE IF o = None THEN Raise("RuntimeError", t3)
        ELSE Ok(o[1], t3 \o <<Step("matmul", "torch.matmul", 0, o[1])>>)

----------------------------------------------------------------------------
(* MAB *)

\* what a constructor call produces: the module, or the exception it raised
Built(m) == [raised |-> "None", module |-> m]
Failed(e) == [raised |-> e, module |-> [cls |-> "None"]]

\* a slip: the feed-forward widths without the closing embed_dim
MAB_init_open(embed_dim, num_heads, ff_layers, final_linear, activation_function, layer_norm, dropout) ==
    IF embed_dim % num_heads # 0 THEN Failed("AssertionError")
    ELSE IF ff_layers = None THEN Failed("TypeError")
    ELSE Built([cls |-> "MAB",
                activation_function |-> activation_function,
                attention |-> [embed_dim |-> embed_dim, num_heads |-> num_heads],
                layer_norm |-> IF layer_norm THEN Some(embed_dim) ELSE None,
                feedforward |-> LinearNet_init(<<embed_dim>> \o ff_layers[1],
                                               LeakyReluAlpha, NetDropoutP, final_linear),
                dropout |-> dropout])

MAB_init(embed_dim, num_heads, ff_layers, final_linear, activation_function, layer_norm, dropout) ==
    IF embed_dim % num_heads # 0 THEN Failed("AssertionError")
    ELSE IF ff_layers = None THEN Failed("TypeError")   \* [embed_dim] + None + [embed_dim]
    ELSE Built([cls |-> "MAB",
                activation_function |-> activation_function,
                attention |-> [embed_dim |-> embed_dim, num_heads |-> num_heads],
                layer_norm |-> IF layer_norm THEN Some(embed_dim) ELSE None,
                feedforward |-> LinearNet_init(<<embed_dim>> \o ff_layers[1] \o <<embed_dim>>,
                                               LeakyReluAlpha, NetDropoutP, final_linear),
                dropout |-> dropout])

\* MAB(embed_dim, **mab_args)
MAB_kwargs(embed_dim, a) ==
    MAB_init(embed_dim, a.num_heads, a.ff_layers, a.final_linear,
             a.activation_function, a.layer_norm, a.dropout)

\* nn.MultiheadAttention(embed_dim, num_heads, batch_first=True)(query, key, value,
\* need_weights=False)[0]: the shape checks it makes and the shape it returns
MultiheadAttention(att, query, key, value) ==
    IF Len(query) \notin {2, 3} THEN Raise("AssertionError", <<>>)
    ELSE IF Len(key) # Len(query) \/ Len(value) # Len(query) THEN Raise("AssertionError", <<>>)
    ELSE IF Last(query) # att.embed_dim THEN Raise("AssertionError", <<>>)
    ELSE IF Last(key) # att.embed_dim \/ Last(value) # att.embed_dim THEN Raise("RuntimeError", <<>>)
    ELSE IF Front(key) # Front(value) THEN Raise("AssertionError", <<>>)
    ELSE IF Len(query) = 3 /\ key[1] # query[1] THEN Raise("RuntimeError", <<>>)
    ELSE Ok(query, <<>>)

\* r + b, for the outcome r of the left operand and the right operand's shape b
Residual(r, b) ==
    IF r.raised # "None" THEN r
    ELSE IF Broadcast(r.shape, b) = None THEN Raise("RuntimeError", r.trace)
    ELSE Ok(Broadcast(r.shape, b)[1],
            r.trace \o <<Step("residual", "add", 0, Broadcast(r.shape, b)[1])>>)

\* if self.layer_norm: h = self.layer_norm(h)
Normalize(mab, r) ==
    IF r.raised # "None" \/ mab.layer_norm = None THEN r
    ELSE IF Last(r.shape) # mab.layer_norm[1] THEN Raise("RuntimeError", r.trace)
    ELSE Ok(r.shape, r.trace \o <<Step("layer_norm", "self.layer_norm", 0, r.shape)>>)

\* h = self.dropout(h)
Dropout(mab, r) ==
    IF r.raised # "None" THEN r
    ELSE Ok(r.shape, r.trace \o <<Step("dropout", "self.dropout", 0, r.shape)>>)

\* a slip: dropout before the normalization
PostResidual_swapped(mab, r) == Normalize(mab, Dropout(mab, r))

\* what follows each residual sum: the optional normalization, then dropout
PostResidual(mab, r) == Dropout(mab, Normalize(mab, r))

\* a slip: the stored activation_function handed to the attention sub-layer
MAB_attended_custom(mab, X, a) ==
    IF a.raised # "None" THEN a
    ELSE PostResidual(mab, Residual(Ok(X, <<Step("attention", mab.activation_function, 0, a.shape)>>),
                                    a.shape))

\* H = X + attention, normalized and dropped out, for the outcome a of self.attention
MAB_attended(mab, X, a) ==
    IF a.raised # "None" THEN a
    ELSE PostResidual(mab, Residual(Ok(X, <<Step("attention", "self.attention", 0, a.shape)>>),
                                    a.shape))

\* the first sub-layer: attention, residual, optional normalization, dropout
MAB_attend(mab, X, Y) == MAB_attended(mab, X, MultiheadAttention(mab.attention, X, Y, Y))

\* mab_out = H + feedforward, normalized and dropped out, for the outcome f of self.feedforward
MAB_fed(mab, H, f) ==
    IF f.raised # "None" THEN Raise(f.raised, H.trace)
    ELSE PostResidual(mab,
            Residual(Ok(H.shape,
                        H.trace \o <<Step("feedforward", "self.feedforward", 0, f.shape)>>),
                     f.shape))

\* the second sub-layer: feed-forward, residual, optional normalization, dropout
MAB_feed(mab, H) ==
    IF H.raised # "None" THEN H
    ELSE MAB_fed(mab, H, LinearNet_forward(mab.feedforward, H.shape))

MAB_forward(mab, X, Y) == MAB_feed(mab, MAB_attend(mab, X, Y))

\* the outcome r of a call, with the calls already made (pre) put before its own
After(pre, r) == [r EXCEPT !.trace = pre \o r.trace]

----------------------------------------------------------------------------
(* PMA *)

PMA_init(embed_dims, seed_count, mab_args) ==
    LET m == MAB_kwargs(embed_dims, mab_args)
    IN  IF m.raised # "None" THEN m
        ELSE Built([cls |-> "PMA",
                    seed_count |-> seed_count,
                    mab |-> m.module,
                    S |-> <<1, seed_count, embed_dims>>])

\* a slip: t.repeat(1, n, 1)
Repeat_sets(t, n) == <<t[1], t[2] * n, t[3]>>

\* t.repeat(n, 1, 1) for a tensor t of rank 3
Repeat(t, n) == <<t[1] * n, t[2], t[3]>>

PMA_forward(pma, X) ==
    LET seeds == Repeat(pma.S, X[1])
    IN  After(<<Step("repeat", "self.S.repeat", 0, seeds)>>, MAB_forward(pma.mab, seeds, X))

----------------------------------------------------------------------------
(* ISAB *)

ISAB_init(m_induce, embed_dim, mab_args) ==
    LET m1 == MAB_kwargs(embed_dim, mab_args)
        m2 == MAB_kwargs(embed_dim, mab_args)
    IN  IF m1.raised # "None" THEN m1
        ELSE IF m2.raised # "None" THEN m2
        ELSE Built([cls |-> "ISAB",
                    m |-> m_induce,
                    mab1 |-> m1.module,
                    mab2 |-> m2.module,
                    I |-> <<m_induce, embed_dim>>])

\* return self.mab2(X, H), for the outcome H of self.mab1
ISAB_back(isab, X, H) ==
    IF H.raised # "None" THEN H
    ELSE After(H.trace, MAB_forward(isab.mab2, X, H.shape))

ISAB_forward(isab, X) == ISAB_back(isab, X, MAB_forward(isab.mab1, isab.I, X))

----------------------------------------------------------------------------
(* IPAB *)

IPAB_init(embed_dim, mab_args) ==
    LET m1 == MAB_kwargs(embed_dim, mab_args)
        m2 == MAB_kwargs(embed_dim, mab_args)
    IN  IF m1.raised # "None" THEN m1
        ELSE IF m2.raised # "None" THEN m2
        ELSE Built([cls |-> "IPAB",
                    embed_dim |-> embed_dim,
                    mab1 |-> m1.module,
                    mab2 |-> m2.module])

\* t.unsqueeze(1), for a tensor of rank at least 1
Unsqueeze1(t) == <<t[1], 1>> \o SubSeq(t, 2, Len(t))

\* a slip: t.squeeze(0)
Squeeze0(t) == IF t[1] = 1 THEN SubSeq(t, 2, Len(t)) ELSE t

\* t.squeeze(1), for a tensor of rank at least 2
Squeeze1(t) == IF t[2] = 1 THEN <<t[1]>> \o SubSeq(t, 3, Len(t)) ELSE t

\* return out, Z.squeeze(1): the outcome's shape is the pair <<out, Z>> returned
IPAB_return(Z, out) ==
    IF out.raised # "None" THEN out
    ELSE Ok(<<out.shape, Squeeze1(Z.shape)>>,
            out.trace \o <<Step("squeeze", "Z.squeeze", 0, Squeeze1(Z.shape))>>)

\* self.mab2(X, Z), for the outcome Z of self.mab1
IPAB_attend_back(ipab, X, Z) ==
    IF Z.raised # "None" THEN Z
    ELSE IPAB_return(Z, After(Z.trace, MAB_forward(ipab.mab2, X, Z.shape)))

IPAB_forward(ipab, X, Z) ==
    IPAB_attend_back(ipab, X,
        After(<<Step("unsqueeze", "Z.unsqueeze", 0, Unsqueeze1(Z))>>,
              MAB_forward(ipab.mab1, Unsqueeze1(Z), X)))

----------------------------------------------------------------------------
(* The driver *)

NoModule == [cls |-> "None"]

Init ==
    /\ self = NoModule
    /\ ctor = NoModule
    /\ op = "none"
    /\ args = <<>>
    /\ raised = "None"
    /\ ret = <<>>
    /\ trace = <<>>
    /\ chain = 0

\* a constructor call that returned module m
Constructed(m, a) ==
    /\ self' = m
    /\ ctor' = a
    /\ op' = "__init__"
    /\ args' = <<>>
    /\ raised' = "None"
    /\ ret' = <<>>
    /\ trace' = <<>>
    /\ chain' = 0

\* a constructor call that raised e
ConstructorRaised(e, a) ==
    /\ self' = NoModule
    /\ ctor' = a
    /\ op' = "__init__"
    /\ args' = <<>>
    /\ raised' = e
    /\ ret' = <<>>
    /\ trace' = <<>>
    /\ chain' = 0

\* a forward call on self with argument shapes a and outcome r, returning shapes v
Returned(a, r, v) ==
    /\ op' = "forward"
    /\ args' = a
    /\ raised' = r.raised
    /\ ret' = IF r.raised = "None" THEN v ELSE <<>>
    /\ trace' = r.trace
    /\ UNCHANGED <<self, ctor>>

\* a forward call whose arguments the driver supplies afresh
Forwarded(a, r, v) == Returned(a, r, v) /\ chain' = 0

\* self exists and the driver is free to call it
Callable(cls) ==
    /\ self.cls = cls
    /\ op = "__init__"

\* the driver drops the results of the last forward call and holds the module as
\* its constructor left it
Release ==
    /\ op = "forward"
    /\ op' = "__init__"
    /\ args' = <<>>
    /\ raised' = "None"
    /\ ret' = <<>>
    /\ trace' = <<>>
    /\ chain' = 0
    /\ UNCHANGED <<self, ctor>>

LayerSizeLists == BoundedSeq(1..MaxEmbed, MaxHidden + 2) \cup {<<4, 8, 1>>, <<10, 20, 30, 1>>}

\* unbatched and batched inputs with the given last dimensions
Unbatched(lastDims) == {<<n, e>> : n \in Dims, e \in lastDims}
Batched(lastDims) == {<<b, n, e>> : b \in Dims, n \in Dims, e \in lastDims}
Latents(lastDims) == {<<b, e>> : b \in Dims, e \in lastDims}

\* the last dimensions tried on a module of embedding dimension e: e, and one that
\* does not fit
InputEmbeds(e) == {e, e + 1}

MABArgs ==
    [num_heads : HeadCounts,
     ff_layers : {None} \cup {Some(l) : l \in BoundedSeq(1..MaxEmbed, MaxHidden)},
     final_linear : BOOLEAN,
     activation_function : ActivationFunctions,
     layer_norm : BOOLEAN,
     dropout : {MABDropoutP}]

\* the outcome c of a constructor call with arguments a
Construct(c, a) ==
    IF c.raised = "None" THEN Constructed(c.module, a) ELSE ConstructorRaised(c.raised, a)

NewLinearNet ==
    /\ op = "none"
    /\ \E layer_sizes \in LayerSizeLists, dropout_p \in DropoutPs, final_linear \in BOOLEAN :
           Construct(Built(LinearNet_init(layer_sizes, LeakyReluAlpha, dropout_p, final_linear)),
                     [cls |-> "LinearNet", layer_sizes |-> layer_sizes,
                      dropout_p |-> dropout_p, final_linear |-> final_linear])

LinearNetForward ==
    /\ Callable("LinearNet")
    /\ \E x \in Unbatched((1..MaxEmbed) \cup {4, 10}) \cup Batched((1..MaxEmbed) \cup {4, 10}) :
          LET r == LinearNet_forward(self, x) IN Forwarded(<<x>>, r, <<r.shape>>)

\* Attention() leaves activation_function at its default, torch.softmax
NewAttention ==
    /\ op = "none"
    /\ \E a \in {None} \cup {Some(f) : f \in ActivationFunctions} :
           Construct(Built(Attention_init(IF a = None THEN "torch.softmax" ELSE a[1])),
                     [cls |-> "Attention", activation_function |-> a])

AttentionForward ==
    /\ Callable("Attention")
    /\ \E Q \in Unbatched(1..MaxEmbed) \cup Batched(1..MaxEmbed),
          K \in Unbatched(1..MaxEmbed) \cup Batched(1..MaxEmbed),
          V \in Unbatched(1..MaxEmbed) \cup Batched(1..MaxEmbed) :
          LET r == Attention_forward(self, Q, K, V) IN Forwarded(<<Q, K, V>>, r, <<r.shape>>)

NewMAB ==
    /\ op = "none"
    /\ \E embed_dim \in EmbedDims, a \in MABArgs :
           Construct(MAB_kwargs(embed_dim, a),
                     [cls |-> "MAB", embed_dim |-> embed_dim, mab_args |-> a])

MABForward ==
    /\ Callable("MAB")
    /\ \E X \in Unbatched(InputEmbeds(self.attention.embed_dim))
                  \cup Batched(InputEmbeds(self.attention.embed_dim)),
          Y \in Unbatched(InputEmbeds(self.attention.embed_dim))
                  \cup Batched(InputEmbeds(self.attention.embed_dim)) :
          LET r == MAB_forward(self, X, Y) IN Forwarded(<<X, Y>>, r, <<r.shape>>)

NewPMA ==
    /\ op = "none"
    /\ \E embed_dims \in EmbedDims, seed_count \in Dims, a \in MABArgs :
           Construct(PMA_init(embed_dims, seed_count, a),
                     [cls |-> "PMA", embed_dims |-> embed_dims, seed_count |-> seed_count,
                      mab_args |-> a])

PMAForward ==
    /\ Callable("PMA")
    /\ \E X \in Unbatched(InputEmbeds(self.S[3])) \cup Batched(InputEmbeds(self.S[3])) :
          LET r == PMA_forward(self, X) IN Forwarded(<<X>>, r, <<r.shape>>)

NewISAB ==
    /\ op = "none"
    /\ \E m_induce \in Dims, embed_dim \in EmbedDims, a \in MABArgs :
           Construct(ISAB_init(m_induce, embed_dim, a),
                     [cls |-> "ISAB", m_induce |-> m_induce, embed_dim |-> embed_dim,
                      mab_args |-> a])

ISABForward ==
    /\ Callable("ISAB")
    /\ \E X \in Unbatched(InputEmbeds(self.I[2])) \cup Batched(InputEmbeds(self.I[2])) :
          LET r == ISAB_forward(self, X) IN Forwarded(<<X>>, r, <<r.shape>>)

NewIPAB ==
    /\ op = "none"
    /\ \E embed_dim \in EmbedDims, a \in MABArgs :
           Construct(IPAB_init(embed_dim, a),
                     [cls |-> "IPAB", embed_dim |-> embed_dim, mab_args |-> a])

IPABForward ==
    /\ Callable("IPAB")
    /\ \E X \in Batched(InputEmbeds(self.embed_dim)), Z \in Latents(InputEmbeds(self.embed_dim)) :
          LET r == IPAB_forward(self, X, Z) IN Forwarded(<<X, Z>>, r, r.shape)

\* out, z = ipab(x, z) again: the same X, and the Z the last call returned
IPABChain ==
    /\ self.cls = "IPAB"
    /\ op = "forward"
    /\ raised = "None"
    /\ chain < MaxChain
    /\ chain' = chain + 1
    /\ LET r == IPAB_forward(self, args[1], ret[2]) IN Returned(<<args[1], ret[2]>>, r, r.shape)

NextLinearNet == NewLinearNet \/ LinearNetForward \/ Release
NextAttention == NewAttention \/ AttentionForward \/ Release
NextMAB == NewMAB \/ MABForward \/ Release
NextPMA == NewPMA \/ PMAForward \/ Release
NextISAB == NewISAB \/ ISABForward \/ Release
NextIPAB == NewIPAB \/ IPABForward \/ IPABChain \/ Release

Next ==
    \/ NewLinearNet \/ LinearNetForward
    \/ NewAttention \/ AttentionForward
    \/ NewMAB \/ MABForward
    \/ NewPMA \/ PMAForward
    \/ NewISAB \/ ISABForward
    \/ NewIPAB \/ IPABForward \/ IPABChain
    \/ Release

SpecLinearNet == Init /\ [][NextLinearNet]_vars
SpecAttention == Init /\ [][NextAttention]_vars
SpecMAB == Init /\ [][NextMAB]_vars
SpecPMA == Init /\ [][NextPMA]_vars
SpecISAB == Init /\ [][NextISAB]_vars
SpecIPAB == Init /\ [][NextIPAB]_vars
Spec == Init /\ [][Next]_vars

----------------------------------------------------------------------------
(* Properties *)

\* the names of the calls of a trace, in order
Ops(tr) == [k \in 1..Len(tr) |-> tr[k].op]
\* the calls of a trace that are named o
Only(tr, o) == SelectSeq(tr, LAMBDA s : s.op = o)
\* the loop indices of the calls of a trace
Indices(tr) == [k \in 1..Len(tr) |-> tr[k].i]
\* a batched input of embedding dimension e
IsBatched(X, e) == Len(X) = 3 /\ X[3] = e

\* C1: ISAB.forward(X) returns a tensor of exactly X's shape, without error, for
\* every batched X of shape (batch, set_size, embed_dim) and 1 <= m_induce <= set_size.
C1_ISABPreservesShape ==
    (/\ self.cls = "ISAB"
     /\ op = "forward"
     /\ IsBatched(args[1], self.I[2])
     /\ self.m <= args[1][2])
    => (raised = "None" /\ ret = <<args[1]>>)

\* every other argument of MAB at its default
DefaultMABArgs(a) ==
    /\ a.ff_layers = None
    /\ a.final_linear
    /\ a.activation_function = "torch.softmax"
    /\ ~a.layer_norm
    /\ a.dropout = MABDropoutP

\* C2: MAB(embed_dim, num_heads), every other argument at its default, fails with
\* the divisibility assertion when embed_dim is not divisible by num_heads and
\* succeeds when it is.
C2_DefaultMABConstruction ==
    (/\ op = "__init__"
     /\ ctor.cls = "MAB"
     /\ DefaultMABArgs(ctor.mab_args))
    => (raised = IF ctor.embed_dim % ctor.mab_args.num_heads = 0 THEN "None"
                 ELSE "AssertionError")

\* C3: IPAB.forward(X, Z) with X of shape (batch, set_size, embed_dim) and Z of shape
\* (batch, embed_dim) raises nothing and returns (out, Z') with out of X's shape and
\* Z' of Z's shape, on a first call and on every call that feeds Z' back in; the IPAB
\* holds what its constructor gave it and no latent.
C3_IPABLatentShape ==
    (self.cls = "IPAB")
    => (/\ self = IPAB_init(ctor.embed_dim, ctor.mab_args).module
        /\ DOMAIN self = {"cls", "embed_dim", "mab1", "mab2"}
        /\ (/\ op = "forward"
            /\ IsBatched(args[1], self.embed_dim)
            /\ args[2] = <<args[1][1], self.embed_dim>>)
           => (raised = "None" /\ ret = <<args[1], args[2]>>))

C3_Witness ==
    /\ self.cls = "IPAB"
    /\ op = "forward"
    /\ chain = 2
    /\ raised = "None"
    /\ args = <<(<<2, 2, self.embed_dim>>), (<<2, self.embed_dim>>)>>
    /\ ret = args

\* C4: MAB.forward(X, Y) returns a tensor of exactly X's shape for every X of shape
\* (batch, n, embed_dim) and Y of shape (batch, m, embed_dim), whatever m and
\* whatever the ff_layers widths.
C4_MABOutputShape ==
    (/\ self.cls = "MAB"
     /\ op = "forward"
     /\ IsBatched(args[1], self.attention.embed_dim)
     /\ IsBatched(args[2], self.attention.embed_dim)
     /\ args[1][1] = args[2][1])
    => (raised = "None" /\ ret = <<args[1]>>)

C4_Witness ==
    /\ self.cls = "MAB"
    /\ op = "forward"
    /\ raised = "None"
    /\ ctor.mab_args.ff_layers = Some(<<2>>)
    /\ args = <<(<<2, 1, 1>>), (<<2, 2, 1>>)>>
    /\ ret = <<(<<2, 1, 1>>)>>

\* C5: PMA.forward(X) returns shape (X's batch size, seed_count, embed_dim) for every
\* input set size, after repeating the (1, seed_count, embed_dim) seed tensor once per
\* batch element; seed_count and the seed tensor's shape stay as constructed.
C5_PMAOutputShape ==
    (self.cls = "PMA")
    => (/\ self.seed_count = ctor.seed_count
        /\ self.S = <<1, ctor.seed_count, ctor.embed_dims>>
        /\ (op = "forward" /\ IsBatched(args[1], ctor.embed_dims))
           => (/\ raised = "None"
               /\ ret = << <<args[1][1], ctor.seed_count, ctor.embed_dims>> >>
               /\ trace[1].op = "repeat"
               /\ trace[1].shape = <<args[1][1], ctor.seed_count, ctor.embed_dims>>))

C5_Witness ==
    /\ self.cls = "PMA"
    /\ op = "forward"
    /\ raised = "None"
    /\ self.seed_count = 1
    /\ args = << <<2, 2, 2>> >>
    /\ ret = << <<2, 1, 2>> >>

\* C6: a LinearNet forward over n >= 1 transforms applies them in list order and
\* applies the nonlinearity right after each transform except, when final_linear is
\* set, the last: n - 1 times when final_linear, n times otherwise.
C6_LeakyReluCount ==
    (/\ self.cls = "LinearNet"
     /\ op = "forward"
     /\ raised = "None"
     /\ Len(self.net) >= 1)
    => LET n == Len(self.net)
           k == IF self.final_linear THEN n - 1 ELSE n
       IN  /\ Indices(Only(trace, "linear")) = [i \in 1..n |-> i]
           /\ Indices(Only(trace, "leaky_relu")) = [i \in 1..k |-> i]
           /\ \A p \in 1..Len(trace) :
                 trace[p].op = "leaky_relu"
                 => (p > 1 /\ trace[p - 1].op = "linear" /\ trace[p - 1].i = trace[p].i)

C6_Witness ==
    /\ self.cls = "LinearNet"
    /\ op = "forward"
    /\ raised = "None"
    /\ ctor.layer_sizes = <<4, 8, 1>>
    /\ self.final_linear
    /\ Len(Only(trace, "leaky_relu")) = 1
    /\ trace[2].op = "leaky_relu"

\* Q, K and V fit: the same leading dimensions, Q and K the same feature dimension,
\* K and V the same set size
FitQKV(Q, K, V) ==
    /\ Len(Q) = Len(K) /\ Len(K) = Len(V)
    /\ SubSeq(Q, 1, Len(Q) - 2) = SubSeq(K, 1, Len(K) - 2)
    /\ SubSeq(K, 1, Len(K) - 1) = SubSeq(V, 1, Len(V) - 1)
    /\ Last(Q) = Last(K)

\* C7: Attention() (default normalization function) returns normalize(QK^T/sqrt(d))V
\* without raising, for Q, K, V that fit; an injected normalization function is called
\* exactly once per forward, on the scaled scores.
C7_AttentionReturns ==
    (/\ self.cls = "Attention"
     /\ op = "forward"
     /\ FitQKV(args[1], args[2], args[3]))
    => (/\ raised = "None"
        /\ ret = <<Front(args[1]) \o <<Last(args[3])>> >>
        /\ Ops(trace) = <<"matmul", "scale", "activation_function", "matmul">>
        /\ trace[3].fn = self.activation_function)

\* the order of the calls of MAB.forward, with and without normalization
MABOrder(layer_norm) ==
    IF layer_norm
    THEN <<"attention", "residual", "layer_norm", "dropout",
           "feedforward", "residual", "layer_norm", "dropout">>
    ELSE <<"attention", "residual", "dropout", "feedforward", "residual", "dropout">>

\* C8: every MAB.forward that returns makes its calls in this order: attention,
\* residual add, LayerNorm iff normalization was enabled at construction, dropout,
\* feed-forward, residual add, LayerNorm iff enabled, dropout.
C8_MABOrder ==
    (/\ self.cls = "MAB"
     /\ op = "forward"
     /\ raised = "None")
    => Ops(trace) = MABOrder(ctor.mab_args.layer_norm)

C8_Witness ==
    /\ self.cls = "MAB"
    /\ op = "forward"
    /\ raised = "None"
    /\ ctor.mab_args.layer_norm
    /\ Len(trace) = 8
    /\ trace[3].op = "layer_norm"
    /\ trace[4].op = "dropout"

\* C9: in a LinearNet forward, dropout is applied only right after the nonlinearity,
\* and with final_linear the last transform's output is returned as it is, with
\* neither the nonlinearity nor dropout applied to it.  (Stated for the dropout
\* probabilities above 0: a dropout of probability 0 changes nothing.)
C9_DropoutFollowsLeakyRelu ==
    (/\ self.cls = "LinearNet"
     /\ op = "forward"
     /\ raised = "None"
     /\ self.dropout > 0
     /\ Len(self.net) >= 1)
    => (/\ \A p \in 1..Len(trace) :
              trace[p].op = "dropout" => (p > 1 /\ trace[p - 1].op = "leaky_relu")
        /\ self.final_linear => Last(trace).op = "linear")

\* what the last forward call would have done on the module built from the same
\* constructor arguments but with activation_function f
TwinForward(f) ==
    LET a == [ctor.mab_args EXCEPT !.activation_function = f]
    IN  IF self.cls = "MAB"
        THEN MAB_forward(MAB_kwargs(ctor.embed_dim, a).module, args[1], args[2])
        ELSE IF self.cls = "PMA"
        THEN PMA_forward(PMA_init(ctor.embed_dims, ctor.seed_count, a).module, args[1])
        ELSE IF self.cls = "ISAB"
        THEN ISAB_forward(ISAB_init(ctor.m_induce, ctor.embed_dim, a).module, args[1])
        ELSE IPAB_forward(IPAB_init(ctor.embed_dim, a).module, args[1], args[2])

\* the last forward call raised, called and returned as the outcome t says
SameOutcome(t) ==
    /\ t.raised = raised
    /\ t.trace = trace
    /\ raised = "None" => ret = IF self.cls = "IPAB" THEN t.shape ELSE <<t.shape>>

\* the activation_function a module holds, in each of its MABs
HeldActivations ==
    IF self.cls = "MAB" THEN {self.activation_function}
    ELSE IF self.cls = "PMA" THEN {self.mab.activation_function}
    ELSE {self.mab1.activation_function, self.mab2.activation_function}

\* C10: the activation_function argument of MAB is stored and has no effect: a MAB,
\* PMA, ISAB or IPAB built with any other activation_function and called on the same
\* inputs raises the same, makes the same calls and returns the same.
C10_ActivationFunctionUnused ==
    (self.cls \in {"MAB", "PMA", "ISAB", "IPAB"})
    => (/\ HeldActivations = {ctor.mab_args.activation_function}
        /\ op = "forward"
           => \A f \in ActivationFunctions : SameOutcome(TwinForward(f)))

C10_Witness ==
    /\ self.cls = "IPAB"
    /\ op = "forward"
    /\ raised = "None"
    /\ self.mab1.activation_function = "softmax_last_axis"
    /\ TwinForward("torch.softmax").trace = trace
    /\ Len(trace) > 2

====
